---------------------------- MODULE Spec2Model ----------------------------
(***************************************************************************)
(* A model of the configflow loader (src/configflow.go): sources are       *)
(* merged into one flat namespace, the namespace is bound onto the fields  *)
(* of a target record, with defaults, coercion and validation rules.       *)
(*                                                                         *)
(* Text is a TLA+ string; At(s, i) is its i-th character.  A loosely typed *)
(* value (Go's interface{}) is a record [kind, val]:                       *)
(*   nil, bool, int, float, str, list, map.                                *)
(* A float is [neg, m, e], the decimal number (-1)^neg * m / 10^e with     *)
(* m not divisible by ten unless e = 0: the decimal texts of the model     *)
(* have fewer than 16 significant digits, for which parsing to a float64   *)
(* and printing its shortest form gives back the normalised decimal.       *)
(***************************************************************************)
EXTENDS Integers, Sequences, FiniteSets, TLC

(***************************************************************************)
(* The state: the Loader (sources, validators, strict), the process        *)
(* environment, the target record (config), and of the last Load call its  *)
(* locals and result: the target's fields when it was called (before), the *)
(* merged namespace, the number of sources it loaded, the rule clauses it   *)
(* called and the error it returned.  op is "Load" when the last operation  *)
(* was a Load call, whose result the state then holds, else "build".       *)
(* For flattenMap on its own: its argument (tree), its result (flat) and    *)
(* the result of flattening that again (reflat).                           *)
(* For several Loaders side by side: the Loaders made so far (loaders),    *)
(* each holding the address of its validators map, the maps by address     *)
(* (heap), and for each Loader the rules registered on it (owned).         *)
(* For findValue on its own: the field's tag texts (tags) and the value    *)
(* it returned (resolved), the namespace being merged.                     *)
(* For Load calls that overlap in time: the calls in progress (running).   *)
(***************************************************************************)

VARIABLES sources, validators, strict, environ, config,
          op, before, merged, loaded, calls, err,
          tree, flat, reflat,
          loaders, heap, owned,
          tags, resolved,
          running

(***************************************************************************)
(* Characters and strings (package strings).                               *)
(***************************************************************************)
At(s, i) == SubSeq(s, i, i)

CharsOf(s) == { At(s, i) : i \in 1..Len(s) }

DigitChars == "0123456789"

Lowers == "abcdefghijklmnopqrstuvwxyz"

Uppers == "ABCDEFGHIJKLMNOPQRSTUVWXYZ"

DigitSet == CharsOf(DigitChars)

LetterSet == CharsOf(Lowers) \cup CharsOf(Uppers)

IsDigit(c) == c \in DigitSet

IsLetter(c) == c \in LetterSet

DigitValues == [c \in DigitSet |-> CHOOSE d \in 0..9 : At(DigitChars, d + 1) = c]

DigitVal(c) == DigitValues[c]

DigitChar(d) == At(DigitChars, d + 1)

AllDigits(s) == \A i \in 1..Len(s) : IsDigit(At(s, i))

LowerOf ==
  [c \in CharsOf(Uppers) |->
     At(Lowers, CHOOSE i \in 1..Len(Uppers) : At(Uppers, i) = c)]

ToLowerChar(c) == IF c \in DOMAIN LowerOf THEN LowerOf[c] ELSE c

RECURSIVE ToLower(_)
ToLower(s) ==
  IF s = "" THEN "" ELSE ToLowerChar(At(s, 1)) \o ToLower(SubSeq(s, 2, Len(s)))

\* strings.Index / strings.LastIndex for a one-character separator,
\* 1-based; 0 when the separator does not occur.
RECURSIVE IndexFrom(_, _, _)
IndexFrom(s, c, i) ==
  IF i > Len(s) THEN 0
  ELSE IF At(s, i) = c THEN i
  ELSE IndexFrom(s, c, i + 1)

IndexOf(s, c) == IndexFrom(s, c, 1)

RECURSIVE LastIndexFrom(_, _, _)
LastIndexFrom(s, c, i) ==
  IF i < 1 THEN 0
  ELSE IF At(s, i) = c THEN i
  ELSE LastIndexFrom(s, c, i - 1)

LastIndexOf(s, c) == LastIndexFrom(s, c, Len(s))

\* strings.Split(s, c): the pieces between the occurrences of c.
RECURSIVE Split(_, _)
Split(s, c) ==
  LET i == IndexOf(s, c)
  IN  IF i = 0 THEN <<s>>
      ELSE <<SubSeq(s, 1, i - 1)>> \o Split(SubSeq(s, i + 1, Len(s)), c)

\* strings.SplitN(s, c, 2): cut at the first occurrence of c only.
SplitN2(s, c) ==
  LET i == IndexOf(s, c)
  IN  IF i = 0 THEN <<s>>
      ELSE <<SubSeq(s, 1, i - 1), SubSeq(s, i + 1, Len(s))>>

IsSpace(c) == c \in {" ", "\t", "\n", "\r"}

RECURSIVE TrimLeft(_)
TrimLeft(s) ==
  IF s # "" /\ IsSpace(At(s, 1)) THEN TrimLeft(SubSeq(s, 2, Len(s))) ELSE s

RECURSIVE TrimRight(_)
TrimRight(s) ==
  IF s # "" /\ IsSpace(At(s, Len(s)))
    THEN TrimRight(SubSeq(s, 1, Len(s) - 1)) ELSE s

TrimSpace(s) == TrimRight(TrimLeft(s))

(***************************************************************************)
(* Loosely typed values.                                                   *)
(***************************************************************************)
Nil == [kind |-> "nil", val |-> 0]

BoolV(b) == [kind |-> "bool", val |-> b]

IntV(i) == [kind |-> "int", val |-> i]

StrV(s) == [kind |-> "str", val |-> s]

RECURSIVE Pow10(_)
Pow10(n) == IF n = 0 THEN 1 ELSE 10 * Pow10(n - 1)

\* The decimal m / 10^e with trailing zeros of the fraction dropped.
RECURSIVE Normalise(_, _)
Normalise(m, e) ==
  IF e > 0 /\ m % 10 = 0 THEN Normalise(m \div 10, e - 1) ELSE [m |-> m, e |-> e]

FloatV(neg, m, e) ==
  LET n == Normalise(m, e)
  IN  [kind |-> "float", val |-> [neg |-> neg, m |-> n.m, e |-> n.e]]

ListV(items) == [kind |-> "list", val |-> items]

MapV(f) == [kind |-> "map", val |-> f]

EmptyMap == <<>>

(***************************************************************************)
(* Package strconv.                                                        *)
(***************************************************************************)
Failed == [ok |-> FALSE, val |-> 0]

Parsed(v) == [ok |-> TRUE, val |-> v]

RECURSIVE DigitsVal(_)
DigitsVal(s) ==
  IF s = "" THEN 0
  ELSE 10 * DigitsVal(SubSeq(s, 1, Len(s) - 1)) + DigitVal(At(s, Len(s)))

HasSign(s) == s # "" /\ At(s, 1) \in {"+", "-"}

Unsigned(s) == IF HasSign(s) THEN SubSeq(s, 2, Len(s)) ELSE s

IsNeg(s) == s # "" /\ At(s, 1) = "-"

\* strconv.ParseInt(s, 10, 64) and strconv.Atoi(s): an optional sign and
\* one or more decimal digits.  The texts of the model are too short to
\* leave the 64-bit range.
ParseInt(s) ==
  LET d == Unsigned(s)
  IN  IF d # "" /\ AllDigits(d)
        THEN Parsed(IF IsNeg(s) THEN 0 - DigitsVal(d) ELSE DigitsVal(d))
        ELSE Failed

\* strconv.ParseBool(s).
ParseBool(s) ==
  IF s \in {"1", "t", "T", "TRUE", "true", "True"} THEN Parsed(TRUE)
  ELSE IF s \in {"0", "f", "F", "FALSE", "false", "False"} THEN Parsed(FALSE)
  ELSE Failed

\* strconv.ParseFloat(s, 64) on decimal texts: sign, digits, an optional
\* fraction, an optional exponent e[+-]digits.  The texts of the model hold
\* no hexadecimal form, underscore, "inf" or "nan".
ParseFloat(s) ==
  LET body == Unsigned(s)
      ie   == IF IndexOf(body, "e") # 0 THEN IndexOf(body, "e")
              ELSE IndexOf(body, "E")
      mant == IF ie = 0 THEN body ELSE SubSeq(body, 1, ie - 1)
      expo == IF ie = 0 THEN "0" ELSE SubSeq(body, ie + 1, Len(body))
      ip   == IndexOf(mant, ".")
      whole == IF ip = 0 THEN mant ELSE SubSeq(mant, 1, ip - 1)
      frac == IF ip = 0 THEN "" ELSE SubSeq(mant, ip + 1, Len(mant))
      x    == ParseInt(expo)
      m    == DigitsVal(whole \o frac)
      e    == Len(frac) - x.val
  IN  IF /\ AllDigits(whole) /\ AllDigits(frac)
         /\ whole \o frac # ""
         /\ x.ok
        THEN Parsed(IF e >= 0 THEN FloatV(IsNeg(s), m, e).val
                    ELSE FloatV(IsNeg(s), m * Pow10(0 - e), 0).val)
        ELSE Failed

(***************************************************************************)
(* fmt.Sprintf("%v", value).                                               *)
(***************************************************************************)
RECURSIVE FormatNat(_)
FormatNat(n) ==
  IF n < 10 THEN DigitChar(n) ELSE FormatNat(n \div 10) \o DigitChar(n % 10)

FormatInt(i) == IF i < 0 THEN "-" \o FormatNat(0 - i) ELSE FormatNat(i)

RECURSIVE Zeros(_)
Zeros(n) == IF n <= 0 THEN "" ELSE "0" \o Zeros(n - 1)

RECURSIVE StripZeros(_)
StripZeros(s) ==
  IF s # "" /\ At(s, Len(s)) = "0" THEN StripZeros(SubSeq(s, 1, Len(s) - 1))
  ELSE s

\* The %v form of a float64 is %g with the shortest digits: the exponent
\* form is used when the decimal exponent is below -4 or at least 6.
FormatFloat(f) ==
  LET sign   == IF f.neg THEN "-" ELSE ""
      digits == FormatNat(f.m)
      nd     == Len(digits)
      dp     == nd - f.e
      exp    == dp - 1
      sig    == StripZeros(digits)
      absx   == IF exp < 0 THEN 0 - exp ELSE exp
      xs     == IF absx < 10 THEN "0" \o FormatNat(absx) ELSE FormatNat(absx)
  IN  IF f.m = 0 THEN sign \o "0"
      ELSE IF exp < -4 \/ exp >= 6
        THEN sign \o At(sig, 1)
             \o (IF Len(sig) > 1 THEN "." \o SubSeq(sig, 2, Len(sig)) ELSE "")
             \o "e" \o (IF exp < 0 THEN "-" ELSE "+") \o xs
      ELSE IF f.e = 0 THEN sign \o digits
      ELSE IF dp <= 0 THEN sign \o "0." \o Zeros(0 - dp) \o digits
      ELSE sign \o SubSeq(digits, 1, dp) \o "." \o SubSeq(digits, dp + 1, nd)

RECURSIVE Sprint(_)
RECURSIVE JoinSprint(_)
JoinSprint(items) ==
  IF items = <<>> THEN ""
  ELSE IF Len(items) = 1 THEN Sprint(items[1])
  ELSE Sprint(items[1]) \o " " \o JoinSprint(Tail(items))

Sprint(v) ==
  CASE v.kind = "nil"   -> "<nil>"
    [] v.kind = "bool"  -> IF v.val THEN "true" ELSE "false"
    [] v.kind = "int"   -> FormatInt(v.val)
    [] v.kind = "float" -> FormatFloat(v.val)
    [] v.kind = "str"   -> v.val
    [] v.kind = "list"  -> "[" \o JoinSprint(v.val) \o "]"

(***************************************************************************)
(* The validation rules (ValidatorFunc).  A rule is named by an id; Apply  *)
(* gives the error it returns: [failed, msg].                              *)
(***************************************************************************)
Pass == [failed |-> FALSE, msg |-> ""]

Reject(msg) == [failed |-> TRUE, msg |-> msg]

RequiredRule(value, param) ==
  IF value = Nil \/ Sprint(value) = "" THEN Reject("field is required")
  ELSE Pass

\* url.Parse fails on a text that starts with a colon (missing protocol
\* scheme) or, having no scheme and no leading slash, holds a colon in its
\* first path segment.  The value texts of the model hold no "//", "%",
\* "#", "?" or control character, the other ways url.Parse can fail.
RECURSIVE schemeFrom(_, _)
schemeFrom(s, i) ==
  IF i > Len(s) THEN 0
  ELSE IF IsLetter(At(s, i)) THEN schemeFrom(s, i + 1)
  ELSE IF IsDigit(At(s, i)) \/ At(s, i) \in {"+", "-", "."}
    THEN IF i = 1 THEN 0 ELSE schemeFrom(s, i + 1)
  ELSE IF At(s, i) = ":" THEN i
  ELSE 0

\* getScheme: the index of the colon that ends the scheme, 0 without one.
SchemeEnd(s) == schemeFrom(s, 1)

UrlParseFails(s) ==
  LET c == SchemeEnd(s)
      seg == Split(s, "/")[1]
  IN  \/ c = 1
      \/ (c = 0 /\ s # "" /\ s # "*" /\ At(s, 1) # "/" /\ IndexOf(seg, ":") # 0)

UrlRule(value, param) ==
  IF UrlParseFails(Sprint(value)) THEN Reject("invalid URL format") ELSE Pass

RangeRule(value, param) ==
  LET parts == Split(param, ",")
  IN  IF Len(parts) # 2
        THEN Reject("range validator requires min,max parameters")
      ELSE
        LET min == ParseInt(TrimSpace(parts[1]))
            max == ParseInt(TrimSpace(parts[2]))
            val == ParseInt(Sprint(value))
        IN  IF ~ min.ok \/ ~ max.ok
              THEN Reject("range parameters must be integers")
            ELSE IF ~ val.ok
              THEN Reject("value must be an integer for range validation")
            ELSE IF val.val < min.val \/ val.val > max.val
              THEN Reject("value must be between " \o FormatInt(min.val)
                          \o " and " \o FormatInt(max.val))
            ELSE Pass

\* ^[a-zA-Z0-9._%+-]+@[a-zA-Z0-9.-]+\.[a-zA-Z]{2,}$
EmailLocalChar(c) == IsLetter(c) \/ IsDigit(c) \/ c \in {".", "_", "%", "+", "-"}

EmailDomainChar(c) == IsLetter(c) \/ IsDigit(c) \/ c \in {".", "-"}

EmailMatches(s) ==
  \E a \in 1..Len(s) : \E d \in 1..Len(s) :
    /\ At(s, a) = "@"
    /\ At(s, d) = "."
    /\ a > 1
    /\ d > a + 1
    /\ Len(s) - d >= 2
    /\ \A i \in 1..(a - 1) : EmailLocalChar(At(s, i))
    /\ \A i \in (a + 1)..(d - 1) : EmailDomainChar(At(s, i))
    /\ \A i \in (d + 1)..Len(s) : IsLetter(At(s, i))

EmailRule(value, param) ==
  IF EmailMatches(Sprint(value)) THEN Pass ELSE Reject("invalid email format")

MinRule(value, param) ==
  LET minVal == ParseInt(param)
      val    == ParseInt(Sprint(value))
  IN  IF ~ minVal.ok THEN Reject("min parameter must be an integer")
      ELSE IF ~ val.ok THEN Reject("value must be an integer for min validation")
      ELSE IF val.val < minVal.val
        THEN Reject("value must be at least " \o FormatInt(minVal.val))
      ELSE Pass

MaxRule(value, param) ==
  LET maxVal == ParseInt(param)
      val    == ParseInt(Sprint(value))
  IN  IF ~ maxVal.ok THEN Reject("max parameter must be an integer")
      ELSE IF ~ val.ok THEN Reject("value must be an integer for max validation")
      ELSE IF val.val > maxVal.val
        THEN Reject("value must be at most " \o FormatInt(maxVal.val))
      ELSE Pass

\* Two rules a caller registers: the "environment" rule of the package's
\* example and the "positive" rule of its README.
EnvironmentRule(value, param) ==
  IF Sprint(value) \in {"development", "staging", "production"} THEN Pass
  ELSE Reject("environment must be one of: [development staging production]")

PositiveRule(value, param) ==
  LET val == ParseInt(Sprint(value))
  IN  IF val.ok /\ val.val <= 0 THEN Reject("value must be positive") ELSE Pass

CustomRules == {"environment", "positive"}

Apply(rule, value, param) ==
  CASE rule = "required"    -> RequiredRule(value, param)
    [] rule = "url"         -> UrlRule(value, param)
    [] rule = "range"       -> RangeRule(value, param)
    [] rule = "email"       -> EmailRule(value, param)
    [] rule = "min"         -> MinRule(value, param)
    [] rule = "max"         -> MaxRule(value, param)
    [] rule = "environment" -> EnvironmentRule(value, param)
    [] rule = "positive"    -> PositiveRule(value, param)

\* getBuiltinValidators(): a fresh mapping from rule name to rule.
getBuiltinValidators ==
  [n \in {"required", "url", "range", "email", "min", "max"} |-> n]

(***************************************************************************)
(* Errors.  NoErr is Go's nil error.                                       *)
(***************************************************************************)
NoErr == [type |-> "nil", field |-> "", rule |-> "", value |-> Nil, msg |-> ""]

ValidationError(field, value, rule, msg) ==
  [type |-> "validation", field |-> field, rule |-> rule, value |-> value,
   msg |-> msg]

WrappedError(type, field, msg) ==
  [type |-> type, field |-> field, rule |-> "", value |-> Nil, msg |-> msg]

(***************************************************************************)
(* Loader.validateField: the clauses of the rule list, left to right.      *)
(* The result holds the error and the clauses whose rule was called.       *)
(***************************************************************************)
RuleName(rule) == SplitN2(rule, ":")[1]

RuleParam(rule) ==
  IF Len(SplitN2(rule, ":")) > 1 THEN SplitN2(rule, ":")[2] ELSE ""

RECURSIVE validateFrom(_, _, _, _, _, _)
validateFrom(vals, fieldName, value, clauses, i, trace) ==
  IF i > Len(clauses) THEN [err |-> NoErr, calls |-> trace]
  ELSE
    LET rule == TrimSpace(clauses[i])
        ruleName == RuleName(rule)
        param == RuleParam(rule)
    IN  IF ruleName \in DOMAIN vals
          THEN LET r == Apply(vals[ruleName], value, param)
               IN  IF r.failed
                     THEN [err |-> ValidationError(fieldName, value, rule, r.msg),
                           calls |-> Append(trace, rule)]
                     ELSE validateFrom(vals, fieldName, value, clauses,
                                       i + 1, Append(trace, rule))
          ELSE validateFrom(vals, fieldName, value, clauses, i + 1, trace)

\* A variant of validateField that calls every registered rule of the list
\* and reports the last rejection.
validateEvery(vals, fieldName, value, rules) ==
  LET cs == Split(rules, ",")
      called == SelectSeq([j \in 1..Len(cs) |-> TrimSpace(cs[j])],
                          LAMBDA c : RuleName(c) \in DOMAIN vals)
      verdict(c) == Apply(vals[RuleName(c)], value, RuleParam(c))
      bad == { j \in 1..Len(called) : verdict(called[j]).failed }
      worst == CHOOSE j \in bad : \A k \in bad : k <= j
  IN  [err |-> IF bad = {} THEN NoErr
               ELSE ValidationError(fieldName, value, called[worst],
                                    verdict(called[worst]).msg),
       calls |-> called]

validateField(vals, fieldName, value, rules) ==
  validateFrom(vals, fieldName, value, Split(rules, ","), 1, <<>>)

(***************************************************************************)
(* Flat and nested mappings (map[string]interface{}): functions from text  *)
(* to values; a nested mapping is a value of kind "map".                   *)
(***************************************************************************)
Put(m, k, v) == [x \in DOMAIN m \cup {k} |-> IF x = k THEN v ELSE m[x]]

mergeMaps(dst, src) ==
  [k \in DOMAIN dst \cup DOMAIN src |-> IF k \in DOMAIN src THEN src[k] ELSE dst[k]]

JoinKey(prefix, k) == IF prefix # "" THEN prefix \o "." \o k ELSE k

\* flattenMap ranges over a Go map, whose iteration order is not fixed:
\* flattenVisit gives the result of every visiting order of the entries
\* still to visit (todo), at this level and in the nested mappings.
RECURSIVE flattenVisit(_, _, _, _)
flattenVisit(m, prefix, todo, result) ==
  IF todo = {} THEN {result}
  ELSE UNION {
         LET key == JoinKey(prefix, k)
         IN  IF m[k].kind = "map"
               THEN UNION { flattenVisit(m, prefix, todo \ {k}, mergeMaps(result, nested)) :
                            nested \in flattenVisit(m[k].val, key, DOMAIN m[k].val, EmptyMap) }
               ELSE flattenVisit(m, prefix, todo \ {k}, Put(result, key, m[k])) :
         k \in todo }

\* A variant of flattenMap that does not descend: a nested mapping stays
\* a value under its own key.
flattenShallow(m, prefix) == { [k \in { JoinKey(prefix, x) : x \in DOMAIN m } |->
                                 m[CHOOSE x \in DOMAIN m : JoinKey(prefix, x) = k]] }

flattenMap(m, prefix) == flattenVisit(m, prefix, DOMAIN m, EmptyMap)

(***************************************************************************)
(* The nested mappings of the model: the data of its map sources and the   *)
(* decoded documents of its files.                                         *)
(***************************************************************************)
DataValid ==
  ("port" :> IntV(8080)) @@ ("email" :> StrV("test@example.com"))
  @@ ("app.name" :> StrV("MyApp")) @@ ("debug" :> BoolV(TRUE))
  @@ ("env" :> StrV("development")) @@ ("rate" :> StrV("3.14"))

DataBad ==
  ("port" :> IntV(500)) @@ ("email" :> StrV(""))
  @@ ("debug" :> StrV("abc")) @@ ("env" :> StrV(""))
  @@ ("retries" :> IntV(9)) @@ ("rate" :> StrV("fast"))

DataNested ==
  ("database" :> MapV(("url" :> StrV("db")) @@ ("pool" :> MapV(EmptyMap))))
  @@ ("database.url" :> StrV("other"))
  @@ ("test_port" :> IntV(3000)) @@ ("email" :> StrV("invalid-email"))
  @@ ("app.name" :> Nil)
  @@ ("tags" :> ListV(<<StrV("x"), StrV("y")>>)) @@ ("retries" :> IntV(3))

MapData == {DataValid, DataBad, DataNested}

Decoded(doc) == [ok |-> TRUE, doc |-> doc]

Malformed == [ok |-> FALSE, doc |-> EmptyMap]

\* A JSON document decodes its numbers to float64.
DocConfig ==
  ("port" :> FloatV(FALSE, 3000, 0)) @@ ("debug" :> BoolV(FALSE))
  @@ ("database" :> MapV("url" :> StrV("filedb")))
  @@ ("rate" :> FloatV(FALSE, 15, 1)) @@ ("label" :> StrV("file"))

\* flattenMap(m, "") for the documents of the model is computed once.
FlattenTable == [m \in MapData \cup {DocConfig} |-> flattenMap(m, "")]

Flattened(m) ==
  IF m \in DOMAIN FlattenTable THEN FlattenTable[m] ELSE flattenMap(m, "")

(***************************************************************************)
(* parseValue: the loose guess, boolean, then integer, then float, then    *)
(* the text itself.                                                        *)
(***************************************************************************)
parseValue(s) ==
  IF ParseBool(s).ok THEN BoolV(ParseBool(s).val)
  ELSE IF ParseInt(s).ok THEN IntV(ParseInt(s).val)
  ELSE IF ParseFloat(s).ok THEN [kind |-> "float", val |-> ParseFloat(s).val]
  ELSE StrV(s)

(***************************************************************************)
(* Sources.  A file of the file system is [exists, readable, json, yaml],  *)
(* json and yaml being what the two decoders return for its bytes:         *)
(* [ok, doc].  The process environment is os.Environ(), a sequence of      *)
(* "KEY=value" entries.                                                    *)
(***************************************************************************)
MapSource(data) == [type |-> "map", path |-> "", data |-> data]

FileSource(path) == [type |-> "file", path |-> path, data |-> EmptyMap]

EnvSource == [type |-> "env", path |-> "", data |-> EmptyMap]

Priority(src) ==
  CASE src.type = "map" -> 0
    [] src.type = "file" -> 1
    [] src.type = "env" -> 2

Loaded(data) == [ok |-> TRUE, data |-> data, msg |-> ""]

LoadFailed(msg) == [ok |-> FALSE, data |-> EmptyMap, msg |-> msg]

MapSourceLoad(ms) == { Loaded(d) : d \in Flattened(ms.data) }

FileExt(path) == ToLower(SubSeq(path, LastIndexOf(path, ".") + 1, Len(path)))

\* A variant of FileSource.Load for which a missing file is an error like
\* any other failure of os.ReadFile.
FileSourceLoadStrict(fs, files) ==
  LET f == files[fs.path]
      ext == FileExt(fs.path)
      dec == IF ext = "json" THEN f.json ELSE f.yaml
  IN  IF ~ f.exists
        THEN {LoadFailed("open " \o fs.path \o ": no such file or directory")}
      ELSE IF ~ f.readable
        THEN {LoadFailed("open " \o fs.path \o ": permission denied")}
      ELSE IF ext \notin {"json", "yaml", "yml"}
        THEN {LoadFailed("unsupported file format: " \o ext)}
      ELSE IF ~ dec.ok THEN {LoadFailed("failed to parse " \o fs.path)}
      ELSE { Loaded(d) : d \in Flattened(dec.doc) }

FileSourceLoad(fs, files) ==
  LET f == files[fs.path]
      ext == FileExt(fs.path)
      dec == IF ext = "json" THEN f.json ELSE f.yaml
  IN  IF ~ f.exists THEN {Loaded(EmptyMap)}
      ELSE IF ~ f.readable
        THEN {LoadFailed("open " \o fs.path \o ": permission denied")}
      ELSE IF ext \notin {"json", "yaml", "yml"}
        THEN {LoadFailed("unsupported file format: " \o ext)}
      ELSE IF ~ dec.ok THEN {LoadFailed("failed to parse " \o fs.path)}
      ELSE { Loaded(d) : d \in Flattened(dec.doc) }

RECURSIVE envFrom(_, _, _)
envFrom(env, i, result) ==
  IF i > Len(env) THEN result
  ELSE LET parts == SplitN2(env[i], "=")
       IN  IF Len(parts) = 2
             THEN envFrom(env, i + 1,
                          Put(result, ToLower(parts[1]), parseValue(parts[2])))
             ELSE envFrom(env, i + 1, result)

EnvSourceLoad(env) == {Loaded(envFrom(env, 1, EmptyMap))}

SourceLoad(src, env, files) ==
  CASE src.type = "map" -> MapSourceLoad(src)
    [] src.type = "file" -> FileSourceLoad(src, files)
    [] src.type = "env" -> EnvSourceLoad(env)

(***************************************************************************)
(* The field binder.  A field of the target record is                      *)
(* [name, kind, settable, cfgKey, envKey, validate, defaultValue]; the     *)
(* four tag texts are what getFieldConfig reads from the field's tag.      *)
(***************************************************************************)
Field(name, kind, settable, cfg, env, validate, default) ==
  [name |-> name, kind |-> kind, settable |-> settable, cfgKey |-> cfg,
   envKey |-> env, validate |-> validate, defaultValue |-> default]

getFieldConfig(field) ==
  [cfgKey |-> field.cfgKey, envKey |-> field.envKey,
   validate |-> field.validate, defaultValue |-> field.defaultValue]

\* A variant of findValue that looks the env key up as it is spelled.
findValueAsSpelled(data, cfg) ==
  IF cfg.envKey # "" /\ cfg.envKey \in DOMAIN data
    THEN data[cfg.envKey]
  ELSE IF cfg.cfgKey # "" /\ cfg.cfgKey \in DOMAIN data
    THEN data[cfg.cfgKey]
  ELSE Nil

\* Loader.findValue: the env key (lower-cased) first, then the config key.
findValue(data, cfg) ==
  IF cfg.envKey # "" /\ ToLower(cfg.envKey) \in DOMAIN data
    THEN data[ToLower(cfg.envKey)]
  ELSE IF cfg.cfgKey # "" /\ cfg.cfgKey \in DOMAIN data
    THEN data[cfg.cfgKey]
  ELSE Nil

SyntaxError(fn, s) == "strconv." \o fn \o ": parsing \"" \o s \o "\": invalid syntax"

\* Loader.setValue: [ok, val, msg], val being the field's new content
\* (old when the field's kind is none of the four handled).
setValue(kind, old, value) ==
  LET s == Sprint(value)
  IN  CASE kind = "string" -> [ok |-> TRUE, val |-> StrV(s), msg |-> ""]
        [] kind = "int" ->
             IF ParseInt(s).ok
               THEN [ok |-> TRUE, val |-> IntV(ParseInt(s).val), msg |-> ""]
               ELSE [ok |-> FALSE, val |-> old, msg |-> SyntaxError("ParseInt", s)]
        [] kind = "bool" ->
             IF ParseBool(s).ok
               THEN [ok |-> TRUE, val |-> BoolV(ParseBool(s).val), msg |-> ""]
               ELSE [ok |-> FALSE, val |-> old, msg |-> SyntaxError("ParseBool", s)]
        [] kind = "float" ->
             IF ParseFloat(s).ok
               THEN [ok |-> TRUE, val |-> [kind |-> "float", val |-> ParseFloat(s).val],
                     msg |-> ""]
               ELSE [ok |-> FALSE, val |-> old, msg |-> SyntaxError("ParseFloat", s)]
        [] OTHER -> [ok |-> TRUE, val |-> old, msg |-> ""]

\* The element of a one-element set: The({ e : x \in {v} }) is e with x
\* standing for v.
The(S) == CHOOSE x \in S : TRUE

Tagged(fieldName, clauses) ==
  [j \in 1..Len(clauses) |-> [field |-> fieldName, rule |-> clauses[j]]]

\* The end of one iteration of applyToStruct's loop, given what setValue
\* returned (set): the error is wrapped as "failed to set field" (errType
\* "set") or "failed to set default for field" (errType "default").
afterSet(errType, fieldName, old, set, called) ==
  IF set.ok THEN [err |-> NoErr, val |-> set.val, calls |-> called]
  ELSE [err |-> WrappedError(errType, fieldName, set.msg), val |-> old,
        calls |-> called]

\* The iteration for a field whose value was found, given what
\* validateField returned (v).
afterValidate(field, old, value, v) ==
  IF v.err # NoErr
    THEN [err |-> v.err, val |-> old, calls |-> Tagged(field.name, v.calls)]
    ELSE afterSet("set", field.name, old, setValue(field.kind, old, value),
                  Tagged(field.name, v.calls))

\* The zero value of a field's type.
ZeroValue(kind) ==
  CASE kind = "string" -> StrV("")
    [] kind = "int"    -> IntV(0)
    [] kind = "bool"   -> BoolV(FALSE)
    [] kind = "float"  -> FloatV(FALSE, 0, 0)
    [] OTHER           -> ListV(<<>>)

\* A variant of the loop's iteration that clears a field for which there is
\* neither a value nor a default.
applyFieldZeroing(vals, field, old, cfg, value) ==
  IF value # Nil
    THEN afterValidate(field, old, value,
                       IF cfg.validate # ""
                         THEN validateField(vals, field.name, value, cfg.validate)
                         ELSE [err |-> NoErr, calls |-> <<>>])
  ELSE IF cfg.defaultValue # ""
    THEN afterSet("default", field.name, old,
                  setValue(field.kind, old, parseValue(cfg.defaultValue)), <<>>)
  ELSE [err |-> NoErr, val |-> ZeroValue(field.kind), calls |-> <<>>]

\* One iteration of applyToStruct's loop, for a settable field holding old:
\* [err, val, calls], val the field's content after the iteration and calls
\* the rule clauses it called, each with the name of the field.
applyField(vals, field, old, cfg, value) ==
  IF value # Nil
    THEN afterValidate(field, old, value,
                       IF cfg.validate # ""
                         THEN validateField(vals, field.name, value, cfg.validate)
                         ELSE [err |-> NoErr, calls |-> <<>>])
  ELSE IF cfg.defaultValue # ""
    THEN afterSet("default", field.name, old,
                  setValue(field.kind, old, parseValue(cfg.defaultValue)), <<>>)
  ELSE [err |-> NoErr, val |-> old, calls |-> <<>>]

\* Loader.applyToStruct from field i on: [err, fields, calls], fields the
\* record's content and calls the rule clauses called so far.
RECURSIVE applyFrom(_, _, _, _, _, _)
applyFrom(vals, type, fields, data, i, trace) ==
  IF i > Len(type) THEN [err |-> NoErr, fields |-> fields, calls |-> trace]
  ELSE IF ~ type[i].settable
    THEN applyFrom(vals, type, fields, data, i + 1, trace)
  ELSE The({ IF f.err # NoErr
               THEN [err |-> f.err, fields |-> fields, calls |-> trace \o f.calls]
               ELSE applyFrom(vals, type, [fields EXCEPT ![i] = f.val], data,
                              i + 1, trace \o f.calls) :
             f \in { applyField(vals, type[i], fields[i], getFieldConfig(type[i]),
                                findValue(data, getFieldConfig(type[i]))) } })

\* A variant of applyToStruct that restores the record when binding fails.
applyWithRollback(vals, target, data) ==
  IF ~ target.isStruct
    THEN [err |-> WrappedError("config", "", "config must be a pointer to struct"),
          fields |-> target.fields, calls |-> <<>>]
    ELSE The({ IF a.err # NoErr THEN [a EXCEPT !.fields = target.fields] ELSE a :
               a \in { applyFrom(vals, target.type, target.fields, data, 1, <<>>) } })

\* A target is [isStruct, type, fields]: Load's argument points to a record
\* of the given type, or (isStruct false) to something that is no record.
applyToStruct(vals, target, data) ==
  IF ~ target.isStruct
    THEN [err |-> WrappedError("config", "", "config must be a pointer to struct"),
          fields |-> target.fields, calls |-> <<>>]
    ELSE applyFrom(vals, target.type, target.fields, data, 1, <<>>)

\* A variant of the loop's order: the sources sorted by Priority, lowest
\* first, sources of equal Priority staying in registration order.
ByPriority(srcs) ==
  SelectSeq(srcs, LAMBDA x : Priority(x) = 0)
  \o SelectSeq(srcs, LAMBDA x : Priority(x) = 1)
  \o SelectSeq(srcs, LAMBDA x : Priority(x) = 2)

\* The order in which Load's loop ranges over l.sources: the order of
\* registration, nothing sorts the slice.
loadOrder(srcs) == srcs

(***************************************************************************)
(* Loader.Load.  mergeFrom is its loop over the sources from index i on:   *)
(* the outcomes [err, merged, loaded], loaded counting the sources whose   *)
(* Load was called.                                                        *)
(***************************************************************************)
\* A variant of Load's loop that passes over a source whose Load fails.
RECURSIVE mergeSkipping(_, _, _, _, _)
mergeSkipping(srcs, env, files, i, acc) ==
  IF i > Len(srcs) THEN {[err |-> NoErr, merged |-> acc, loaded |-> Len(srcs)]}
  ELSE UNION {
         mergeSkipping(srcs, env, files, i + 1,
                       IF r.ok THEN mergeMaps(acc, r.data) ELSE acc) :
         r \in SourceLoad(srcs[i], env, files) }

RECURSIVE mergeFrom(_, _, _, _, _)
mergeFrom(srcs, env, files, i, acc) ==
  IF i > Len(srcs) THEN {[err |-> NoErr, merged |-> acc, loaded |-> Len(srcs)]}
  ELSE UNION {
         IF r.ok
           THEN mergeFrom(srcs, env, files, i + 1, mergeMaps(acc, r.data))
           ELSE {[err |-> WrappedError("source", "", r.msg), merged |-> acc,
                  loaded |-> i]} :
         r \in SourceLoad(srcs[i], env, files) }

Load(srcs, vals, env, files, target) ==
  UNION {
    IF m.err # NoErr
      THEN {[err |-> m.err, fields |-> target.fields, merged |-> m.merged,
             loaded |-> m.loaded, calls |-> <<>>]}
      ELSE {[err |-> a.err, fields |-> a.fields, merged |-> m.merged,
             loaded |-> m.loaded, calls |-> a.calls] :
            a \in {applyToStruct(vals, target, m.merged)}} :
    m \in mergeFrom(loadOrder(srcs), env, files, 1, EmptyMap) }

(***************************************************************************)
(* The inputs of the model: target record types, map data, files and      *)
(* process environments.                                                   *)
(***************************************************************************)
\* The AppConfig of the package comment.
TypeAppConfig ==
  << Field("Port", "int", TRUE, "port", "PORT", "range:1000,9999", ""),
     Field("Database", "string", TRUE, "database.url", "DATABASE_URL", "required,url", ""),
     Field("Debug", "bool", TRUE, "debug", "DEBUG", "", "false") >>

\* The Config of TestValidation.
TypeValidation ==
  << Field("Port", "int", TRUE, "port", "", "range:1000,9999", ""),
     Field("Email", "string", TRUE, "email", "", "required,email", "") >>

\* The Config of TestEnvironmentOverride.
TypeEnvOverride ==
  << Field("Port", "int", TRUE, "port", "TEST_PORT", "", "8080") >>

\* The Config of TestBasicLoading.
TypeBasic ==
  << Field("Port", "int", TRUE, "port", "", "", "8080"),
     Field("AppName", "string", TRUE, "app.name", "", "", "TestApp"),
     Field("Debug", "bool", TRUE, "debug", "", "", "false") >>

\* The Config of ExampleCustomValidator, its rule followed by two built-in
\* ones, with a bounded retry count.
TypeCustom ==
  << Field("Environment", "string", TRUE, "env", "", "environment,required,email", ""),
     Field("Retries", "int", TRUE, "retries", "", "min:0, max:5", "1") >>

\* A record with an unexported field, a field of an unhandled kind and a
\* float field.
TypeMixed ==
  << Field("name", "string", FALSE, "app.name", "", "", "hidden"),
     Field("Tags", "slice", TRUE, "tags", "", "", "a"),
     Field("Rate", "float", TRUE, "rate", "RATE", "", "2.50"),
     Field("Label", "string", TRUE, "label", "", "", "007") >>

TypeNames == {"AppConfig", "Validation", "EnvOverride", "Basic", "Custom", "Mixed", "NotStruct"}

StructFields(t) ==
  CASE t = "AppConfig"   -> TypeAppConfig
    [] t = "Validation"  -> TypeValidation
    [] t = "EnvOverride" -> TypeEnvOverride
    [] t = "Basic"       -> TypeBasic
    [] t = "Custom"      -> TypeCustom
    [] t = "Mixed"       -> TypeMixed
    [] t = "NotStruct"   -> <<>>

\* &Config{}: a fresh record of type t.
ZeroConfig(t) ==
  [type |-> t,
   fields |-> [i \in 1..Len(StructFields(t)) |-> ZeroValue(StructFields(t)[i].kind)]]

Target(c) ==
  [isStruct |-> c.type # "NotStruct", type |-> StructFields(c.type), fields |-> c.fields]

Files ==
  ("config.json" :> [exists |-> TRUE, readable |-> TRUE,
                     json |-> Decoded(DocConfig), yaml |-> Decoded(DocConfig)])
  @@ ("missing.yaml" :> [exists |-> FALSE, readable |-> FALSE,
                         json |-> Malformed, yaml |-> Malformed])
  @@ ("bad.YML" :> [exists |-> TRUE, readable |-> TRUE,
                    json |-> Malformed, yaml |-> Malformed])
  @@ ("config.toml" :> [exists |-> TRUE, readable |-> TRUE,
                        json |-> Malformed, yaml |-> Malformed])
  @@ ("locked.json" :> [exists |-> TRUE, readable |-> FALSE,
                        json |-> Decoded(DocConfig), yaml |-> Decoded(DocConfig)])

Paths == DOMAIN Files

Environs ==
  { <<>>,
    <<"PORT=9090", "DEBUG=true", "RATE=0.5">>,
    <<"TEST_PORT=9090", "PORT=1", "DATABASE_URL=envdb", "RATE=1">>,
    <<"HOME", "TEST_PORT=abc", "port=7", "DEBUG=">> }

\* The rules a caller registers: a new name, and one that shadows a
\* built-in name.
Registrations ==
  { [name |-> "environment", rule |-> "environment"],
    [name |-> "required", rule |-> "positive"] }

MaxSources == 2

loader == <<sources, validators, strict>>

result == <<before, merged, loaded, calls, err>>

flattening == <<tree, flat, reflat>>

fleet == <<loaders, heap, owned>>

lookup == <<tags, resolved>>

elsewhere == <<fleet, lookup, running>>

vars == <<sources, validators, strict, environ, config, op, before, merged,
          loaded, calls, err, tree, flat, reflat, loaders, heap, owned,
          tags, resolved, running>>

\* No Loader besides the one of sources, validators and strict.
NoFleet ==
  /\ loaders = <<>>
  /\ heap = <<>>
  /\ owned = <<>>

\* No findValue call on its own.
NoLookup ==
  /\ tags = [cfgKey |-> "", envKey |-> "", validate |-> "", defaultValue |-> ""]
  /\ resolved = Nil

\* No Load call in progress.
NoRun == running = <<>>

NoResult ==
  /\ before' = <<>>
  /\ merged' = EmptyMap
  /\ loaded' = 0
  /\ calls' = <<>>
  /\ err' = NoErr

\* New(), a fresh target, and the environment of the process.
Init ==
  /\ sources = <<>>
  /\ validators = getBuiltinValidators
  /\ strict = FALSE
  /\ environ \in Environs
  /\ config \in { ZeroConfig(t) : t \in TypeNames }
  /\ op = "build"
  /\ before = <<>>
  /\ merged = EmptyMap
  /\ loaded = 0
  /\ calls = <<>>
  /\ err = NoErr
  /\ tree = EmptyMap
  /\ flat = EmptyMap
  /\ reflat = EmptyMap
  /\ NoFleet
  /\ NoLookup
  /\ NoRun

AddFile(path) ==
  /\ Len(sources) < MaxSources
  /\ sources' = Append(sources, FileSource(path))
  /\ op' = "build"
  /\ NoResult
  /\ UNCHANGED <<validators, strict, environ, config, flattening, elsewhere>>

AddEnv ==
  /\ Len(sources) < MaxSources
  /\ sources' = Append(sources, EnvSource)
  /\ op' = "build"
  /\ NoResult
  /\ UNCHANGED <<validators, strict, environ, config, flattening, elsewhere>>

AddMap(data) ==
  /\ Len(sources) < MaxSources
  /\ sources' = Append(sources, MapSource(data))
  /\ op' = "build"
  /\ NoResult
  /\ UNCHANGED <<validators, strict, environ, config, flattening, elsewhere>>

EnableValidation ==
  /\ op' = "build"
  /\ NoResult
  /\ UNCHANGED <<sources, validators, strict, environ, config, flattening, elsewhere>>

Strict ==
  /\ strict' = TRUE
  /\ op' = "build"
  /\ NoResult
  /\ UNCHANGED <<sources, validators, environ, config, flattening, elsewhere>>

AddValidator(name, rule) ==
  /\ validators' = Put(validators, name, rule)
  /\ op' = "build"
  /\ NoResult
  /\ UNCHANGED <<sources, strict, environ, config, flattening, elsewhere>>

\* config = &Config{}: the caller takes a fresh target of the same type.
NewConfig ==
  /\ config' = ZeroConfig(config.type)
  /\ op' = "build"
  /\ NoResult
  /\ UNCHANGED <<sources, validators, strict, environ, flattening, elsewhere>>

LoadConfig ==
  \E r \in Load(sources, validators, environ, Files, Target(config)) :
    /\ config' = [config EXCEPT !.fields = r.fields]
    /\ before' = config.fields
    /\ merged' = r.merged
    /\ loaded' = r.loaded
    /\ calls' = r.calls
    /\ err' = r.err
    /\ op' = "Load"
    /\ UNCHANGED <<sources, validators, strict, environ, flattening, elsewhere>>

Next ==
  \/ \E path \in Paths : AddFile(path)
  \/ AddEnv
  \/ \E data \in MapData : AddMap(data)
  \/ EnableValidation
  \/ Strict
  \/ \E reg \in Registrations : AddValidator(reg.name, reg.rule)
  \/ NewConfig
  \/ LoadConfig

Spec == Init /\ [][Next]_vars

(***************************************************************************)
(* flattenMap on its own: the argument is drawn from the tree mappings   *)
(* over a few keys (one of them empty, one holding a dot), three levels    *)
(* deep, and flattened twice.                                              *)
(***************************************************************************)
MaxLeaf == 2

Leaves == { IntV(n) : n \in 1..MaxLeaf }

PartialMaps(keys, values) == UNION { [ks -> values] : ks \in SUBSET keys }

Inner2 == PartialMaps({"c"}, Leaves)

Inner1 == PartialMaps({"b"}, Leaves \cup { MapV(m) : m \in Inner2 })

NestedMaps == PartialMaps({"a", "a.b", ""}, Leaves \cup { MapV(m) : m \in Inner1 })

InitFlatten ==
  /\ sources = <<>>
  /\ validators = getBuiltinValidators
  /\ strict = FALSE
  /\ environ = <<>>
  /\ config = ZeroConfig("NotStruct")
  /\ op = "build"
  /\ before = <<>>
  /\ merged = EmptyMap
  /\ loaded = 0
  /\ calls = <<>>
  /\ err = NoErr
  /\ tree \in NestedMaps
  /\ flat = EmptyMap
  /\ reflat = EmptyMap
  /\ NoFleet
  /\ NoLookup
  /\ NoRun

FlattenTwice ==
  /\ op = "build"
  /\ \E r \in flattenMap(tree, "") :
       /\ flat' = r
       /\ \E rr \in flattenMap(r, "") : reflat' = rr
  /\ op' = "flattenMap"
  /\ UNCHANGED <<sources, validators, strict, environ, config, before, merged,
                 loaded, calls, err, tree, elsewhere>>

NextFlatten == FlattenTwice

SpecFlatten == InitFlatten /\ [][NextFlatten]_vars

(***************************************************************************)
(* Several Loaders side by side.  A Go map is a reference: a Loader holds  *)
(* the address of its validators map and heap gives the map at an address. *)
(* owned records, for each Loader, the last rule registered on it under    *)
(* each name.                                                              *)
(***************************************************************************)
MaxLoaders == 3

\* A variant in which getBuiltinValidators hands out one map of the package
\* to every caller.
SharedValidators(h) ==
  IF h = <<>> THEN [heap |-> <<getBuiltinValidators>>, at |-> 1]
  ELSE [heap |-> h, at |-> 1]

\* The map that getBuiltinValidators() makes for New: a map literal, at an
\* address of its own.
NewValidators(h) == [heap |-> Append(h, getBuiltinValidators), at |-> Len(h) + 1]

InitLoaders ==
  /\ sources = <<>>
  /\ validators = getBuiltinValidators
  /\ strict = FALSE
  /\ environ = <<>>
  /\ config = ZeroConfig("NotStruct")
  /\ op = "build"
  /\ before = <<>>
  /\ merged = EmptyMap
  /\ loaded = 0
  /\ calls = <<>>
  /\ err = NoErr
  /\ tree = EmptyMap
  /\ flat = EmptyMap
  /\ reflat = EmptyMap
  /\ NoFleet
  /\ NoLookup
  /\ NoRun

\* loader := New()
NewLoader ==
  /\ Len(loaders) < MaxLoaders
  /\ LET made == NewValidators(heap)
     IN  /\ heap' = made.heap
         /\ loaders' = Append(loaders, [sources |-> <<>>, validators |-> made.at,
                                        strict |-> FALSE])
  /\ owned' = Append(owned, EmptyMap)
  /\ UNCHANGED <<sources, validators, strict, environ, config, op, result, flattening,
                 lookup, running>>

\* loaders[l].AddValidator(name, rule)
AddValidatorOn(l, name, rule) ==
  /\ heap' = [heap EXCEPT ![loaders[l].validators] = Put(@, name, rule)]
  /\ owned' = [owned EXCEPT ![l] = Put(@, name, rule)]
  /\ UNCHANGED <<loaders, sources, validators, strict, environ, config, op, result,
                 flattening, lookup, running>>

NextLoaders ==
  \/ NewLoader
  \/ \E l \in 1..Len(loaders) : \E name \in {"environment", "required"} :
       \E rule \in CustomRules : AddValidatorOn(l, name, rule)

SpecLoaders == InitLoaders /\ [][NextLoaders]_vars

(***************************************************************************)
(* A target that outlives its Loader: the caller takes a new Loader with   *)
(* New(), registers map sources on it and loads into the record an earlier *)
(* Load has populated.                                                     *)
(***************************************************************************)
\* loader = configflow.New(): no source, the built-in rules, not strict.
New ==
  /\ sources' = <<>>
  /\ validators' = getBuiltinValidators
  /\ strict' = FALSE
  /\ op' = "build"
  /\ NoResult
  /\ UNCHANGED <<environ, config, flattening, elsewhere>>

NextReload ==
  \/ New
  \/ \E data \in MapData : AddMap(data)
  \/ LoadConfig

SpecReload == Init /\ [][NextReload]_vars

(***************************************************************************)
(* findValue on its own: the namespace is what one source of any kind      *)
(* gives (a map with keys in several letter cases, a file, the             *)
(* environment), the tag texts are drawn from a few key spellings.         *)
(***************************************************************************)
MaxValue == 2

KeySpellings == {"port", "PORT", "Test_Port", "test_port"}

FindMaps == PartialMaps(KeySpellings, { IntV(n) : n \in 1..MaxValue } \cup {Nil})

FindSources ==
  { <<MapSource(d)>> : d \in FindMaps } \cup {<<EnvSource>>, <<FileSource("config.json")>>}

FindTags ==
  { [cfgKey |-> c, envKey |-> e, validate |-> "", defaultValue |-> ""] :
      c \in {"", "port", "PORT", "test_port"}, e \in {"", "PORT", "port", "Test_Port"} }

InitFind ==
  /\ sources \in FindSources
  /\ validators = getBuiltinValidators
  /\ strict = FALSE
  /\ environ \in Environs
  /\ config = ZeroConfig("NotStruct")
  /\ op = "build"
  /\ before = <<>>
  /\ merged \in { r.merged : r \in mergeFrom(loadOrder(sources), environ, Files, 1, EmptyMap) }
  /\ loaded = 1
  /\ calls = <<>>
  /\ err = NoErr
  /\ tree = EmptyMap
  /\ flat = EmptyMap
  /\ reflat = EmptyMap
  /\ NoFleet
  /\ tags \in FindTags
  /\ resolved = Nil
  /\ NoRun

\* value := l.findValue(data, cfg)
FindValue ==
  /\ op = "build"
  /\ resolved' = findValue(merged, tags)
  /\ op' = "findValue"
  /\ UNCHANGED <<loader, environ, config, result, flattening, fleet, tags, running>>

NextFind == FindValue

SpecFind == InitFind /\ [][NextFind]_vars

(***************************************************************************)
(* Load calls in progress at the same time on the one Loader, each into a  *)
(* record of its own.  A call advances by one source of Load's loop or one *)
(* field of applyToStruct's loop at a time; running.call[p] is the         *)
(* position of call p (pc, i), the map it merges into (at), its target     *)
(* (type, fields) and what it returned (err, loaded); running.maps are     *)
(* the maps made by the calls.  Sources are registered between calls.      *)
(***************************************************************************)
MaxCalls == 2

Calls == 1..MaxCalls

\* A variant of Load in which the calls merge into one map of the Loader.
makeShared(p) == 1

\* merged := make(map[string]interface{}): a map of the call's own.
makeMerged(p) == p

Idle(t) ==
  [pc |-> "idle", i |-> 0, at |-> 0, type |-> t, fields |-> ZeroConfig(t).fields,
   err |-> NoErr, loaded |-> 0]

ConcurrentSources ==
  { <<>>,
    <<MapSource(DataValid)>>,
    <<MapSource(DataNested), EnvSource>>,
    <<FileSource("config.json"), MapSource(DataBad)>>,
    <<FileSource("bad.YML")>> }

ConcurrentTypes == {"AppConfig", "Mixed", "NotStruct"}

InitConcurrent ==
  /\ sources \in ConcurrentSources
  /\ validators = getBuiltinValidators
  /\ strict = FALSE
  /\ environ \in {<<>>, <<"PORT=9090", "DEBUG=true", "RATE=0.5">>}
  /\ config = ZeroConfig("NotStruct")
  /\ op = "build"
  /\ before = <<>>
  /\ merged = EmptyMap
  /\ loaded = 0
  /\ calls = <<>>
  /\ err = NoErr
  /\ tree = EmptyMap
  /\ flat = EmptyMap
  /\ reflat = EmptyMap
  /\ NoFleet
  /\ NoLookup
  /\ running \in { [call |-> [p \in Calls |-> Idle(types[p])],
                    maps |-> [p \in Calls |-> EmptyMap]] :
                   types \in [Calls -> ConcurrentTypes] }

Outside == <<loader, environ, config, op, result, flattening, fleet, lookup>>

\* Load is called: merged := make(map[string]interface{}).
StartLoad(p) ==
  /\ running.call[p].pc = "idle"
  /\ running' = [running EXCEPT !.call[p].pc = "sources",
                                !.call[p].i = 1,
                                !.call[p].at = makeMerged(p),
                                !.maps[makeMerged(p)] = EmptyMap]
  /\ UNCHANGED Outside

\* One iteration of Load's loop over l.sources.
LoadSource(p) ==
  LET c == running.call[p]
  IN  /\ c.pc = "sources"
      /\ c.i <= Len(sources)
      /\ \E r \in SourceLoad(sources[c.i], environ, Files) :
           running' =
             IF r.ok
               THEN [running EXCEPT !.call[p].i = c.i + 1,
                                    !.call[p].loaded = c.i,
                                    !.maps[c.at] = mergeMaps(@, r.data)]
               ELSE [running EXCEPT !.call[p].pc = "done",
                                    !.call[p].loaded = c.i,
                                    !.call[p].err = WrappedError("source", "", r.msg)]
      /\ UNCHANGED Outside

\* The loop is over: applyToStruct is called and looks at its argument.
ApplyToStruct(p) ==
  LET c == running.call[p]
  IN  /\ c.pc = "sources"
      /\ c.i > Len(sources)
      /\ running' =
           IF c.type = "NotStruct"
             THEN [running EXCEPT !.call[p].pc = "done",
                                  !.call[p].err =
                                    WrappedError("config", "",
                                                 "config must be a pointer to struct")]
             ELSE [running EXCEPT !.call[p].pc = "apply", !.call[p].i = 1]
      /\ UNCHANGED Outside

\* One iteration of applyToStruct's loop over the fields, or its return.
BindField(p) ==
  LET c == running.call[p]
      type == StructFields(c.type)
  IN  /\ c.pc = "apply"
      /\ running' =
           IF c.i > Len(type)
             THEN [running EXCEPT !.call[p].pc = "done"]
           ELSE IF ~ type[c.i].settable
             THEN [running EXCEPT !.call[p].i = c.i + 1]
           ELSE The({ IF f.err # NoErr
                        THEN [running EXCEPT !.call[p].pc = "done",
                                             !.call[p].err = f.err]
                        ELSE [running EXCEPT !.call[p].i = c.i + 1,
                                             !.call[p].fields[c.i] = f.val] :
                      f \in { applyField(validators, type[c.i], c.fields[c.i],
                                         getFieldConfig(type[c.i]),
                                         findValue(running.maps[c.at],
                                                   getFieldConfig(type[c.i]))) } })
      /\ UNCHANGED Outside

\* Between calls the caller registers a map source and takes new records.
AddMapBetween(data) ==
  /\ \A p \in Calls : running.call[p].pc \in {"idle", "done"}
  /\ Len(sources) < MaxSources
  /\ sources' = Append(sources, MapSource(data))
  /\ running' = [running EXCEPT !.call = [p \in Calls |-> Idle(running.call[p].type)]]
  /\ UNCHANGED <<validators, strict, environ, config, op, result, flattening,
                 fleet, lookup>>

LoadStep ==
  \E p \in Calls : StartLoad(p) \/ LoadSource(p) \/ ApplyToStruct(p) \/ BindField(p)

NextConcurrent ==
  \/ \E p \in Calls : StartLoad(p)
  \/ \E p \in Calls : LoadSource(p)
  \/ \E p \in Calls : ApplyToStruct(p)
  \/ \E p \in Calls : BindField(p)
  \/ \E data \in MapData : AddMapBetween(data)

SpecConcurrent == InitConcurrent /\ [][NextConcurrent]_vars

(***************************************************************************)
(* Properties of Load.                                                     *)
(***************************************************************************)
\* What a source can give for its Load in the present environment.
Outputs(src) == { r.data : r \in { o \in SourceLoad(src, environ, Files) : o.ok } }

\* One output for each registered source.
OutputChoices ==
  { outs \in [1..Len(sources) -> UNION { Outputs(sources[i]) : i \in 1..Len(sources) }] :
      \A i \in 1..Len(sources) : outs[i] \in Outputs(sources[i]) }

Holders(outs, K) == { i \in DOMAIN outs : K \in DOMAIN outs[i] }

Last(S) == CHOOSE i \in S : \A j \in S : j <= i

\* The namespace in which every key has the value of the last output
\* holding it.
LastWins(outs) ==
  [K \in UNION { DOMAIN outs[i] : i \in DOMAIN outs } |-> outs[Last(Holders(outs, K))][K]]

Fields == StructFields(config.type)

BindingFailed == err.type \in {"validation", "set", "default"}

FailIndex == CHOOSE i \in 1..Len(Fields) : Fields[i].name = err.field

\* Load's loop went past field i.
Past(i) == err = NoErr \/ (BindingFailed /\ FailIndex > i)

\* The entries of the environment that define the variable called name.
EnvEntries(env, name) ==
  { j \in 1..Len(env) : /\ Len(SplitN2(env[j], "=")) = 2
                        /\ SplitN2(env[j], "=")[1] = name }

EnvDefines(env, name) == EnvEntries(env, name) # {}

EnvText(env, name) == SplitN2(env[Last(EnvEntries(env, name))], "=")[2]

\* What setValue makes of the text of an environment entry.
FromEnv(f, old) == setValue(f.kind, old, parseValue(EnvText(environ, f.envKey)))

\* C2: with an environment source registered and the variable named by a
\* field's env tag defined, an error-free Load leaves in the field the
\* value of that environment entry, in whatever order the sources were
\* registered and whatever the other sources hold.
C2_EnvTakesPrecedence ==
  (op = "Load" /\ err = NoErr /\ \E j \in 1..Len(sources) : sources[j] = EnvSource) =>
    \A i \in 1..Len(Fields) :
      (/\ Fields[i].settable
       /\ Fields[i].envKey # ""
       /\ EnvDefines(environ, Fields[i].envKey)
       /\ FromEnv(Fields[i], before[i]).ok)
      => config.fields[i] = FromEnv(Fields[i], before[i]).val

\* No registered source holds a value for the field: neither of its keys
\* is in the merged namespace.
Unsupplied(f) ==
  /\ f.envKey = "" \/ ToLower(f.envKey) \notin DOMAIN merged
  /\ f.cfgKey = "" \/ f.cfgKey \notin DOMAIN merged

HasRequired(validate) ==
  \E j \in 1..Len(Split(validate, ",")) :
    RuleName(TrimSpace(Split(validate, ",")[j])) = "required"

\* C3: Load returns an error when a field whose rule list holds
\* `required` has no value in any registered source and no default.
C3_RequiredMissingFails ==
  (op = "Load" /\ config.type # "NotStruct" /\ validators["required"] = "required") =>
    ((\E i \in 1..Len(Fields) :
        /\ Fields[i].settable
        /\ HasRequired(Fields[i].validate)
        /\ Fields[i].defaultValue = ""
        /\ Unsupplied(Fields[i]))
     => err # NoErr)

\* The literals of a field's kind, and their values.
ValidLiteral(kind, text) ==
  CASE kind = "int"    -> ParseInt(text).ok
    [] kind = "bool"   -> ParseBool(text).ok
    [] kind = "float"  -> ParseFloat(text).ok
    [] kind = "string" -> TRUE
    [] OTHER           -> FALSE

LiteralValue(kind, text) ==
  CASE kind = "int"    -> IntV(ParseInt(text).val)
    [] kind = "bool"   -> BoolV(ParseBool(text).val)
    [] kind = "float"  -> [kind |-> "float", val |-> ParseFloat(text).val]
    [] kind = "string" -> StrV(text)

\* The field's value comes from its default annotation.
FromDefaultText(f) == f.settable /\ Unsupplied(f) /\ f.defaultValue # ""

\* The field's value comes from one environment variable: the environment
\* source is the only source, the variable named by the env tag is defined
\* once under any spelling of its name, and the field has no rule list.
FromEnvText(f) ==
  /\ f.settable
  /\ f.envKey # ""
  /\ f.validate = ""
  /\ sources # <<>>
  /\ \A j \in 1..Len(sources) : sources[j] = EnvSource
  /\ EnvDefines(environ, f.envKey)
  /\ Cardinality({ j \in 1..Len(environ) :
                     ToLower(SplitN2(environ[j], "=")[1]) = ToLower(f.envKey) }) = 1

TextOf(f) == IF FromEnvText(f) THEN EnvText(environ, f.envKey) ELSE f.defaultValue

\* C4: a field whose value comes from text that is a valid literal of the
\* field's kind does not make Load fail, and once Load is past the field
\* the field holds exactly the literal's value (a string field the text
\* unchanged).
C4_TextLiteralBinds ==
  op = "Load" =>
    \A i \in 1..Len(Fields) :
      (/\ FromEnvText(Fields[i]) \/ FromDefaultText(Fields[i])
       /\ ValidLiteral(Fields[i].kind, TextOf(Fields[i])))
      => /\ ~ (BindingFailed /\ FailIndex = i)
         /\ Past(i) => config.fields[i] = LiteralValue(Fields[i].kind, TextOf(Fields[i]))

\* What one iteration of applyToStruct's loop makes of field i, given the
\* merged namespace and the field's content before Load.
Bound(i) ==
  applyField(validators, Fields[i], before[i], getFieldConfig(Fields[i]),
             findValue(merged, getFieldConfig(Fields[i])))

FieldIndex(name) == CHOOSE i \in 1..Len(Fields) : Fields[i].name = name

\* C5: when binding fails at a field, Load returns that field's error at
\* once: every settable field declared before it holds the value just bound
\* to it, the failing field and every field after it are as they were
\* before Load, and no rule of a later field was called.
C5_NoRollback ==
  (op = "Load" /\ BindingFailed) =>
    /\ err = Bound(FailIndex).err
    /\ \A i \in 1..Len(Fields) :
         IF i < FailIndex /\ Fields[i].settable
           THEN Bound(i).err = NoErr /\ config.fields[i] = Bound(i).val
           ELSE config.fields[i] = before[i]
    /\ \A j \in 1..Len(calls) : FieldIndex(calls[j].field) <= FailIndex

\* Reached: the third field of TestBasicLoading's Config fails to convert
\* after the first was bound to a new value; the third keeps the value an
\* earlier Load gave it.
C5_Witness ==
  /\ op = "Load"
  /\ config.type = "Basic"
  /\ err.type = "set"
  /\ FailIndex = 3
  /\ config.fields[1] # before[1]
  /\ config.fields[3] = before[3]
  /\ before[3] # ZeroValue("bool")

\* The clauses of a rule list, and what the registry makes of a clause.
Clauses(validate) ==
  [j \in 1..Len(Split(validate, ",")) |-> TrimSpace(Split(validate, ",")[j])]

Registered(c) == RuleName(c) \in DOMAIN validators

Verdict(c, value) == Apply(validators[RuleName(c)], value, RuleParam(c))

Rejecting(cs, value) ==
  { j \in 1..Len(cs) : Registered(cs[j]) /\ Verdict(cs[j], value).failed }

First(S) == CHOOSE j \in S : \A k \in S : j <= k

\* Load called validateField on field i.
Validated(i) ==
  /\ Fields[i].settable
  /\ Fields[i].validate # ""
  /\ findValue(merged, getFieldConfig(Fields[i])) # Nil
  /\ err = NoErr \/ (BindingFailed /\ FailIndex >= i)

\* The rules called on field i, in the order of the calls.
CallsOf(i) ==
  LET mine == SelectSeq(calls, LAMBDA c : c.field = Fields[i].name)
  IN  [j \in 1..Len(mine) |-> mine[j].rule]

\* C6: on a field with a rule list and a resolved value the clauses are
\* taken left to right; a clause naming no registered rule is skipped; the
\* ValidationError names the first clause whose rule rejects the value and
\* no clause to its right is called; when no clause rejects, the field
\* gives no ValidationError.
C6_FirstRejectingClause ==
  op = "Load" =>
    \A i \in 1..Len(Fields) :
      Validated(i) =>
        LET cs == Clauses(Fields[i].validate)
            value == findValue(merged, getFieldConfig(Fields[i]))
            bad == Rejecting(cs, value)
        IN  IF bad = {}
              THEN /\ CallsOf(i) = SelectSeq(cs, Registered)
                   /\ ~ (err.type = "validation" /\ err.field = Fields[i].name)
              ELSE /\ CallsOf(i) = SelectSeq(SubSeq(cs, 1, First(bad)), Registered)
                   /\ err = ValidationError(Fields[i].name, value, cs[First(bad)],
                                            Verdict(cs[First(bad)], value).msg)

\* Reached: `environment,required,email` on an empty text with no
\* `environment` rule registered: the first clause is skipped, `required`
\* rejects, and `email`, which would reject too, is not called.
C6_Witness ==
  /\ op = "Load"
  /\ config.type = "Custom"
  /\ "environment" \notin DOMAIN validators
  /\ validators["required"] = "required"
  /\ err.type = "validation"
  /\ err.rule = "required"
  /\ Verdict("email", err.value).failed
  /\ calls = <<[field |-> "Environment", rule |-> "required"]>>

\* A source whose Load fails: a file that exists and cannot be read, has
\* an extension other than json, yaml, yml, or does not decode.
Unloadable(src) ==
  /\ src.type = "file"
  /\ Files[src.path].exists
  /\ \/ ~ Files[src.path].readable
     \/ FileExt(src.path) \notin {"json", "yaml", "yml"}
     \/ ~ (IF FileExt(src.path) = "json" THEN Files[src.path].json
                                         ELSE Files[src.path].yaml).ok

FailingSources == { i \in 1..Len(sources) : Unloadable(sources[i]) }

\* C7: when a registered source fails to load, Load returns an error, the
\* target is as it was before Load, no rule was called, and the failing
\* source is the last one whose Load was called.
C7_SourceFailureAborts ==
  (op = "Load" /\ FailingSources # {}) =>
    /\ err.type = "source"
    /\ config.fields = before
    /\ calls = <<>>
    /\ loaded = First(FailingSources)

\* Reached: a map source that loaded, then a failing file; the target had
\* been bound by an earlier Load and keeps those values.
C7_Witness ==
  /\ op = "Load"
  /\ Len(sources) = 2
  /\ sources[1] = MapSource(DataBad)
  /\ Unloadable(sources[2])
  /\ config.type = "Basic"
  /\ err.type = "source"
  /\ loaded = 2
  /\ before # ZeroConfig("Basic").fields
  /\ before[1] # IntV(500)

\* A file source whose file does not exist.
MissingFile(src) == src.type = "file" /\ ~ Files[src.path].exists

Without(srcs, i) == SubSeq(srcs, 1, i - 1) \o SubSeq(srcs, i + 1, Len(srcs))

\* The results Load can give the caller for the target as it was before
\* Load: the error and the fields.
Results(srcs) ==
  { [err |-> r.err, fields |-> r.fields] :
      r \in Load(srcs, validators, environ, Files,
                 [Target(config) EXCEPT !.fields = before]) }

\* C8: a registered file source whose file does not exist changes nothing:
\* Load gives the results of the same loader without that source, wherever
\* the source stands in the registration order.
C8_MissingFileIsNoSource ==
  op = "Load" =>
    \A i \in 1..Len(sources) :
      MissingFile(sources[i]) =>
        /\ [err |-> err, fields |-> config.fields] \in Results(Without(sources, i))
        /\ Results(sources) = Results(Without(sources, i))

\* Reached: a missing file registered before a map source, and a Load that
\* binds the map's values without error.
C8_Witness ==
  /\ op = "Load"
  /\ Len(sources) = 2
  /\ MissingFile(sources[1])
  /\ sources[2] = MapSource(DataValid)
  /\ err = NoErr
  /\ config.fields # before

\* A rule list that is one clause `range:min,max` with integer bounds.
RangeBounds(validate) == Split(RuleParam(validate), ",")

IsRangeList(validate) ==
  /\ RuleName(validate) = "range"
  /\ Len(RangeBounds(validate)) = 2
  /\ ParseInt(RangeBounds(validate)[1]).ok
  /\ ParseInt(RangeBounds(validate)[2]).ok

InRange(validate, value) ==
  /\ ParseInt(Sprint(value)).ok
  /\ ParseInt(RangeBounds(validate)[1]).val <= ParseInt(Sprint(value)).val
  /\ ParseInt(Sprint(value)).val <= ParseInt(RangeBounds(validate)[2]).val

\* C10: a field declared with `range:min,max` and a resolved value is
\* rejected by Load exactly when the value's text is no integer within
\* min..max, both bounds included.
C10_RangeInclusive ==
  (op = "Load" /\ validators["range"] = "range") =>
    \A i \in 1..Len(Fields) :
      (Validated(i) /\ IsRangeList(Fields[i].validate)) =>
        ((err.type = "validation" /\ err.field = Fields[i].name)
           <=> ~ InRange(Fields[i].validate,
                         findValue(merged, getFieldConfig(Fields[i]))))

(***************************************************************************)
(* Properties of flattenMap.                                               *)
(***************************************************************************)
\* The root-to-leaf paths of a nested mapping, a leaf being any value that
\* is no mapping: [path, leaf].
RECURSIVE LeafPaths(_)
LeafPaths(m) ==
  UNION { IF m[k].kind = "map"
            THEN { [path |-> <<k>> \o p.path, leaf |-> p.leaf] : p \in LeafPaths(m[k].val) }
            ELSE { [path |-> <<k>>, leaf |-> m[k]] } :
          k \in DOMAIN m }

\* The keys of a path with a dot between every two of them.
RECURSIVE DotJoin(_)
DotJoin(path) ==
  IF Len(path) = 1 THEN path[1] ELSE path[1] \o "." \o DotJoin(Tail(path))

\* The keys of a path joined from the left, a dot being written only after
\* a prefix that is not empty.
RECURSIVE JoinedFrom(_, _)
JoinedFrom(prefix, path) ==
  IF path = <<>> THEN prefix
  ELSE JoinedFrom(IF prefix = "" THEN path[1] ELSE prefix \o "." \o path[1], Tail(path))

Joined(path) == JoinedFrom("", path)

ValidatorsOf(l) == heap[loaders[l].validators]

\* C11: every Loader resolves each rule name to the rule registered on it
\* under that name, else to the built-in rule of that name, and resolves no
\* other name: a rule registered on one Loader is never seen by another.
C11_OwnValidators ==
  \A l \in 1..Len(loaders) :
    /\ DOMAIN ValidatorsOf(l) = DOMAIN getBuiltinValidators \cup DOMAIN owned[l]
    /\ \A n \in DOMAIN ValidatorsOf(l) :
         ValidatorsOf(l)[n] = IF n \in DOMAIN owned[l] THEN owned[l][n]
                              ELSE getBuiltinValidators[n]

\* Reached: three Loaders; on the second `required` is shadowed and
\* `environment` registered, the first, made before, and the third, made
\* after and with an `environment` rule of its own, keep the built-in
\* `required`.
C11_Witness ==
  /\ Len(loaders) = 3
  /\ owned[1] = EmptyMap
  /\ owned[2] = ("required" :> "positive") @@ ("environment" :> "environment")
  /\ owned[3] = ("environment" :> "positive")
  /\ ValidatorsOf(1)["required"] = "required"
  /\ "environment" \notin DOMAIN ValidatorsOf(1)
  /\ ValidatorsOf(3)["required"] = "required"
  /\ ValidatorsOf(3)["environment"] = "positive"

(***************************************************************************)
(* Properties of findValue.                                                *)
(***************************************************************************)
\* The keys of the namespace that are the name under some letter case.
Spelled(name) == { K \in DOMAIN merged : ToLower(K) = ToLower(name) }

\* The entries of the environment whose variable is the name under some
\* letter case.
EnvSpelled(name) ==
  { j \in 1..Len(environ) : /\ Len(SplitN2(environ[j], "=")) = 2
                            /\ ToLower(SplitN2(environ[j], "=")[1]) = ToLower(name) }

\* C12, as amended: a field with an env key resolves to the entry of the
\* namespace under the lower-cased env key when there is one; otherwise to
\* the entry under its config key, spelled as declared, when there is one;
\* otherwise to no value.  A variable of the environment source is found
\* under any letter case of its name.
C12_LowerCasedEnvKey ==
  op = "findValue" =>
    /\ resolved = IF tags.envKey # "" /\ ToLower(tags.envKey) \in DOMAIN merged
                    THEN merged[ToLower(tags.envKey)]
                  ELSE IF tags.cfgKey # "" /\ tags.cfgKey \in DOMAIN merged
                    THEN merged[tags.cfgKey]
                  ELSE Nil
    /\ (sources = <<EnvSource>> /\ tags.envKey # "" /\ EnvSpelled(tags.envKey) # {})
         => resolved = parseValue(SplitN2(environ[Last(EnvSpelled(tags.envKey))], "=")[2])

\* C12, as stated: the env key is found in the namespace under any letter
\* case, whatever kind of source gave the key.
C12_AnyLetterCase ==
  op = "findValue" =>
    IF tags.envKey # "" /\ Spelled(tags.envKey) # {}
      THEN \E K \in Spelled(tags.envKey) : resolved = merged[K]
    ELSE IF tags.cfgKey # "" /\ tags.cfgKey \in DOMAIN merged
      THEN resolved = merged[tags.cfgKey]
    ELSE resolved = Nil

\* Reached: a map source gives the key PORT in capitals and no key port;
\* the field's env key PORT does not find it and the field resolves to the
\* entry of its config key.
C12_Witness ==
  /\ op = "findValue"
  /\ sources[1].type = "map"
  /\ tags.envKey = "PORT"
  /\ tags.cfgKey = "test_port"
  /\ "PORT" \in DOMAIN merged
  /\ "port" \notin DOMAIN merged
  /\ "test_port" \in DOMAIN merged
  /\ merged["PORT"] # merged["test_port"]
  /\ resolved = merged["test_port"]
  /\ resolved # Nil

(***************************************************************************)
(* Properties of Load on a populated record.                               *)
(***************************************************************************)
\* The settable fields for which the namespace has no value and the tag no
\* default.
Untouched ==
  { i \in 1..Len(Fields) : /\ Fields[i].settable
                           /\ findValue(merged, getFieldConfig(Fields[i])) = Nil
                           /\ getFieldConfig(Fields[i]).defaultValue = "" }

\* C13, as amended: after an error-free Load every settable field with no
\* resolved value and no default holds what it held before the call (the
\* zero value of its type when the record was fresh), with or without a
\* validate expression.
C13_UnresolvedKeepsContent ==
  (op = "Load" /\ err = NoErr) =>
    \A i \in Untouched : config.fields[i] = before[i]

\* C13, as stated: after an error-free Load every such field holds the zero
\* value of its type, whatever the record held before.
C13_UnresolvedIsZero ==
  (op = "Load" /\ err = NoErr) =>
    \A i \in Untouched : config.fields[i] = ZeroValue(Fields[i].kind)

\* Reached: an error-free Load with no source into a record whose field
\* Database, carrying a validate expression and no default, an earlier
\* Load populated.
C13_Witness ==
  /\ op = "Load"
  /\ err = NoErr
  /\ config.type = "AppConfig"
  /\ sources = <<>>
  /\ environ = <<>>
  /\ 2 \in Untouched
  /\ Fields[2].validate # ""
  /\ before[2] # ZeroValue("string")
  /\ config.fields[2] = before[2]

(***************************************************************************)
(* Properties of repeated runs.                                            *)
(***************************************************************************)
\* C14: flattening a map source's mapping gives one result whatever the
\* order in which its entries are visited, and Load, run again on the same
\* sources, environment and record content, has one outcome: the one that
\* was observed.
C14_LoadDeterministic ==
  op = "Load" =>
    /\ \A i \in 1..Len(sources) :
         sources[i].type = "map" => Cardinality(Flattened(sources[i].data)) = 1
    /\ Results(sources) = {[err |-> err, fields |-> config.fields]}

(***************************************************************************)
(* Properties of Load calls in progress at the same time.                  *)
(***************************************************************************)
\* What Load gives when it runs alone on the Loader into a fresh record of
\* type t.
Alone(t) == Load(sources, validators, environ, Files, Target(ZeroConfig(t)))

\* The namespaces Load merges when it runs alone and no source fails.
AloneMerged ==
  { m.merged : m \in { o \in mergeFrom(loadOrder(sources), environ, Files, 1, EmptyMap) :
                         o.err = NoErr } }

\* Call p binds from a namespace of a run alone, and has returned what a
\* run alone returns, having called every source up to the failing one
\* (all the registered ones when none fails).
AsAlone(p) ==
  LET c == running.call[p]
  IN  /\ c.pc = "apply" => running.maps[c.at] \in AloneMerged
      /\ c.pc = "done" =>
           /\ \E r \in Alone(c.type) :
                r.err = c.err /\ r.fields = c.fields /\ r.loaded = c.loaded
           /\ c.err.type # "source" => c.loaded = Len(sources)

\* C15: a step of Load changes neither the Loader (sources and the
\* mappings of its map sources, validators, strict) nor the environment,
\* and every Load call in progress beside another one on the same Loader,
\* into a record of its own, gives what it gives when it runs alone, all
\* the registered sources being loaded.
C15_LoadsDoNotInterfere ==
  /\ [](\A p \in Calls : AsAlone(p))
  /\ [][LoadStep => UNCHANGED <<sources, validators, strict, environ>>]_vars

\* Reached: two calls in progress on a Loader with two sources, the first
\* one binding fields from its namespace, with a field already bound, while
\* the second one is in its loop over the sources, one source merged.
C15_Witness ==
  /\ Len(sources) = 2
  /\ running.call[1].type = "AppConfig"
  /\ running.call[1].pc = "apply"
  /\ running.call[1].fields # ZeroConfig("AppConfig").fields
  /\ running.call[2].type = "Mixed"
  /\ running.call[2].pc = "sources"
  /\ running.call[2].i = 2
  /\ running.maps[running.call[2].at] # EmptyMap
  /\ running.maps[running.call[1].at] # running.maps[running.call[2].at]

=============================================================================
